---- MODULE Spec2Model ----
(***************************************************************************)
(* Model of the panel lifecycle controller of src/src/webview/index.ts     *)
(* (class Webview): the process-wide singleton reference, the instances    *)
(* and their arrays of disposables, the host surfaces (WebviewPanel) they  *)
(* wrap, the promises returned by render, and the host events that call    *)
(* back into the instance (disposal, inbound message, view state change).  *)
(*                                                                         *)
(* Every operation of the class is a pure operator on a state record       *)
(*   s = [cur, inst, pan, reg, pro, ev, threw]                             *)
(* that is computed as the code computes it: cur .. pro are the variables, *)
(* ev is the sequence of calls the operation made into the host, in call   *)
(* order (with dispose's assignment to the singleton reference among       *)
(* them), and threw tells whether it ended by throwing. The actions apply  *)
(* one operation to the current state and commit the result.               *)
(*                                                                         *)
(* The file holds two variants of the class; the model follows the first   *)
(* (lines 10-194), whose render returns the handshake promise. create,     *)
(* render's reveal-or-create, revive, the constructor and dispose are the  *)
(* same in the second.                                                     *)
(*                                                                         *)
(* The host (the vscode API) is the environment: a surface is created      *)
(* visible, WebviewPanel.dispose() is idempotent and fires onDidDispose    *)
(* synchronously, an event emitter calls its listeners in registration     *)
(* order and outlives a listener that throws, and a disposed surface       *)
(* delivers no event. revive is handed a surface the host restored, which  *)
(* no instance wraps yet.                                                  *)
(*                                                                         *)
(* A registration counts the runs of its cleanup (cleaned); its listener   *)
(* is attached until the first. Two fields record history for the          *)
(* properties and are read by no operation: disposeCalled (dispose() has   *)
(* run on the instance) and first (whether the first message delivered on  *)
(* a promise's surface after its render was ready or another command).     *)
(***************************************************************************)
EXTENDS Integers, Sequences, FiniteSets, TLC

\* Bounds of the model.
MaxInst == 3    \* instances constructed in one run (one surface each)
MaxShow == 3    \* render calls in one run (one promise each)

\* view -> host discriminants: the two the code names, and one it does not
Commands == {"ready", "error", "other"}
\* payloads of an error report
Data == {"x", "y"}
\* host -> view envelopes (the vocabulary is open: one representative)
Envelopes == {"x"}

VARIABLES
    currentPanel,   \* Webview.currentPanel: 0 is undefined, else an instance
    instances,      \* every Webview constructed: [panel, disposables, disposeCalled]
    panels,         \* every host surface: [disposed, load]; load: the content
                    \* was (re)loaded and has not signalled ready yet
    registrations,  \* every listener registration: [kind, inst, panel, promise, cleaned]
    promises,       \* every promise render returned: [status, inst, first]
    faulty          \* registrations whose cleanup throws

vars == <<currentPanel, instances, panels, registrations, promises, faulty>>

----------------------------------------------------------------------------
\* The state the operations work on.

St ==
    [cur |-> currentPanel, inst |-> instances, pan |-> panels,
     reg |-> registrations, pro |-> promises, ev |-> <<>>, threw |-> FALSE]

\* One call into the host (or one effect the host observes), in call order.
Emit(s, e, a, d) ==
    [s EXCEPT !.ev = Append(@, [e |-> e, a |-> a, d |-> d])]

\* event.(listener, null, disposables): the host attaches the listener to
\* surface p and pushes the registration's cleanup handle on i's disposables.
Register(s, i, p, kind, q) ==
    LET r == Len(s.reg) + 1 IN
    [s EXCEPT !.reg = Append(@, [kind |-> kind, inst |-> i, panel |-> p,
                                 promise |-> q, cleaned |-> 0]),
              !.inst[i].disposables = Append(@, r)]

\* A listener is attached from its registration until its cleanup runs.
Attached(s, p, kind) ==
    {r \in 1..Len(s.reg) : /\ s.reg[r].panel = p
                           /\ s.reg[r].kind = kind
                           /\ s.reg[r].cleaned = 0}

\* update(): assigns freshly generated markup to the surface, which makes
\* the embedded content load again.
update(s, i) ==
    LET p == s.inst[i].panel IN
    Emit([s EXCEPT !.pan[p].load = TRUE], "html", p, "")

\* new Webview(panel, extensionUri)
Construct(s, p) ==
    LET i  == Len(s.inst) + 1
        s0 == [s EXCEPT !.inst = Append(@, [panel |-> p, disposables |-> <<>>, disposeCalled |-> FALSE])]
        s1 == update(s0, i)
        s2 == Register(s1, i, p, "dispose", 0)
        s3 == Register(s2, i, p, "message", 0)
    IN  Register(s3, i, p, "viewstate", 0)

\* vscode.window.createWebviewPanel(viewType, title, viewColumn, options)
CreateWebviewPanel(s) ==
    LET p == Len(s.pan) + 1 IN
    Emit([s EXCEPT !.pan = Append(@, [disposed |-> FALSE, load |-> FALSE])],
         "createWebviewPanel", p, "scripts+roots")

\* create that also tracks the instance it returns.
createTracked(s) ==
    LET c == Construct(CreateWebviewPanel(s), Len(s.pan) + 1)
    IN  [c EXCEPT !.cur = Len(c.inst)]

\* Webview.create: the new instance is Len(result.inst)
create(s) == Construct(CreateWebviewPanel(s), Len(s.pan) + 1)

\* panel.reveal(viewColumn): the host brings the surface to the foreground;
\* a disposed surface refuses the call.
Reveal(s, p) ==
    IF s.pan[p].disposed THEN [s EXCEPT !.threw = TRUE]
    ELSE Emit(s, "reveal", p, "")

\* An executor that attaches a listener only while the tracked instance has
\* no handshake listener yet.
HandshakeFirstOnly(s) ==
    LET q  == Len(s.pro) + 1
        s1 == [s EXCEPT !.pro = Append(@, [status |-> "pending", inst |-> s.cur,
                                           first |-> "none"])]
    IN  IF s.cur = 0 \/ Attached(s, s.inst[s.cur].panel, "handshake") # {} THEN s1
        ELSE Register(s1, s.cur, s.inst[s.cur].panel, "handshake", q)

\* The promise's executor: a handshake listener on the tracked instance's
\* surface, its registration pushed on that instance's disposables.
Handshake(s) ==
    LET q  == Len(s.pro) + 1
        s1 == [s EXCEPT !.pro = Append(@, [status |-> "pending", inst |-> s.cur,
                                           first |-> "none"])]
    IN  IF s.cur = 0 THEN s1
        ELSE Register(s1, s.cur, s.inst[s.cur].panel, "handshake", q)

\* Webview.render: reveal the tracked instance or create and track one,
\* then return a new promise.
render(s) ==
    LET s1 == IF s.cur # 0
              THEN Reveal(s, s.inst[s.cur].panel)
              ELSE LET c == create(s) IN [c EXCEPT !.cur = Len(c.inst)]
    IN  IF s1.threw THEN s1 ELSE Handshake(s1)

\* revive that builds its own surface as render does.
reviveCreate(s, p) ==
    LET c == create(s) IN [c EXCEPT !.cur = Len(c.inst)]

\* Webview.revive(panel, extensionUri)
revive(s, p) ==
    LET c == Construct(s, p) IN [c EXCEPT !.cur = Len(c.inst)]

\* postMessage to the instance constructed last, tracked or not.
postMessageLatest(s, m) ==
    IF s.inst = <<>> THEN s
    ELSE Emit(s, "postMessage", s.inst[Len(s.inst)].panel, m)

\* Webview.postMessage(message)
postMessage(s, m) ==
    IF s.cur = 0 THEN s
    ELSE Emit(s, "postMessage", s.inst[s.cur].panel, m)

\* The ids of S in increasing order: listeners fire in registration order.
RECURSIVE Sorted(_)
Sorted(S) ==
    IF S = {} THEN <<>>
    ELSE LET m == CHOOSE x \in S : \A y \in S : x <= y
         IN  <<m>> \o Sorted(S \ {m})

\* Drain as a loop over the array that removes nothing from it.
RECURSIVE DrainKeepFrom(_, _, _)
DrainKeepFrom(s, i, k) ==
    IF k = 0 THEN s
    ELSE LET r == s.inst[i].disposables[k]
         IN  DrainKeepFrom(Emit([s EXCEPT !.reg[r].cleaned = @ + 1], "cleanup", r, ""),
                           i, k - 1)

DrainKeep(s, i) == DrainKeepFrom(s, i, Len(s.inst[i].disposables))

\* while (this.disposables.length) { pop and dispose }: a cleanup that
\* throws ends the loop, and the call, where it stands.
RECURSIVE Drain(_, _)
Drain(s, i) ==
    IF s.inst[i].disposables = <<>> THEN s
    ELSE LET ds == s.inst[i].disposables
             r  == ds[Len(ds)]
             s1 == Emit([s EXCEPT !.inst[i].disposables = SubSeq(ds, 1, Len(ds) - 1),
                                  !.reg[r].cleaned = @ + 1],
                        "cleanup", r, "")
         IN  IF r \in faulty THEN [s1 EXCEPT !.threw = TRUE] ELSE Drain(s1, i)

RECURSIVE dispose(_, _)

\* The host's event emitter calls the disposal listeners that are attached
\* when it fires, in registration order; a listener that throws is reported
\* to the host and the next one is still called.
RECURSIVE FireDidDispose(_, _)
FireDidDispose(s, rs) ==
    IF rs = <<>> THEN s
    ELSE LET r  == Head(rs)
             s1 == IF s.reg[r].cleaned = 0
                   THEN [dispose(s, s.reg[r].inst) EXCEPT !.threw = FALSE]
                   ELSE s
         IN  FireDidDispose(s1, Tail(rs))

\* WebviewPanel.dispose(), called by the instance or by the host when the
\* user closes the surface: nothing on a disposed surface, else the surface
\* is marked disposed and its disposal event fires.
PanelDispose(s, p) ==
    IF s.pan[p].disposed THEN s
    ELSE FireDidDispose(Emit([s EXCEPT !.pan[p] = [disposed |-> TRUE, load |-> FALSE]],
                             "panelDispose", p, ""),
                        Sorted(Attached(s, p, "dispose")))

\* What a call finds in Webview.currentPanel when it starts.
Observed(s) == IF s.cur = 0 THEN "absent" ELSE "tracked"

\* dispose that only clears the singleton reference.
disposeClearOnly(s, i) ==
    Emit([s EXCEPT !.cur = 0, !.inst[i].disposeCalled = TRUE],
             "clear", i, Observed(s))

\* dispose that disposes the surface before it clears the reference.
disposeSurfaceFirst(s, i) ==
    LET s1 == PanelDispose(s, s.inst[i].panel)
        s2 == Emit([s1 EXCEPT !.cur = 0, !.inst[i].disposeCalled = TRUE],
                   "clear", i, Observed(s1))
    IN  Drain(s2, i)

\* dispose that leaves the singleton reference as it is.
disposeNoClear(s, i) ==
    LET s1 == Emit([s EXCEPT !.inst[i].disposeCalled = TRUE], "clear", i, Observed(s))
        s2 == PanelDispose(s1, s.inst[i].panel)
    IN  Drain(s2, i)

\* Webview.dispose (instance i): each call notes, with the assignment of
\* line 124, what the singleton reference held when the call started.
dispose(s, i) ==
    LET s1 == Emit([s EXCEPT !.cur = 0, !.inst[i].disposeCalled = TRUE],
             "clear", i, Observed(s))
        s2 == PanelDispose(s1, s.inst[i].panel)
    IN  Drain(s2, i)

\* handleMessage that reports every command it does not know.
handleMessageDefault(s, cmd, d) ==
    IF cmd # "ready" THEN Emit(s, "showErrorMessage", 0, d) ELSE s

\* handleMessage that matches the other variant's discriminant.
handleMessageAlert(s, cmd, d) ==
    IF cmd = "other" THEN Emit(s, "showErrorMessage", 0, d) ELSE s

\* Webview.handleMessage
handleMessage(s, cmd, d) ==
    IF cmd = "error" THEN Emit(s, "showErrorMessage", 0, d) ELSE s

\* A handshake listener that resolves on any message.
SettleAny(s, q, cmd) ==
    Emit(IF s.pro[q].status # "pending" THEN s
         ELSE [s EXCEPT !.pro[q].status = "resolved"],
         "resolve", q, "")

\* A handshake listener whose every call sets the outcome.
SettleOverwrite(s, q, cmd) ==
    Emit([s EXCEPT !.pro[q].status = IF cmd = "ready" THEN "resolved" ELSE "rejected"],
         IF cmd = "ready" THEN "resolve" ELSE "reject", q, "")

\* The handshake listener: resolve() on ready, reject() otherwise; the call
\* changes nothing on a promise that is settled.
Settle(s, q, cmd) ==
    Emit(IF s.pro[q].status # "pending" THEN s
         ELSE [s EXCEPT !.pro[q].status = IF cmd = "ready" THEN "resolved" ELSE "rejected"],
         IF cmd = "ready" THEN "resolve" ELSE "reject", q, "")

RECURSIVE FireMessage(_, _, _, _)
FireMessage(s, rs, cmd, d) ==
    IF rs = <<>> THEN s
    ELSE LET r  == Head(rs)
             s1 == IF s.reg[r].kind = "message"
                   THEN handleMessage(s, cmd, d)
                   ELSE Settle(s, s.reg[r].promise, cmd)
         IN  FireMessage(s1, Tail(rs), cmd, d)

\* The promises whose render is still waiting for its first inbound message
\* on surface p learn whether it was ready or another command.
RECURSIVE NoteFirstFrom(_, _, _, _)
NoteFirstFrom(s, q, p, cmd) ==
    IF q > Len(s.pro) THEN s
    ELSE LET hit == /\ s.pro[q].inst # 0
                    /\ s.inst[s.pro[q].inst].panel = p
                    /\ s.pro[q].first = "none"
             s1  == IF hit
                    THEN [s EXCEPT !.pro[q].first = IF cmd = "ready" THEN "ready" ELSE "other"]
                    ELSE s
         IN  NoteFirstFrom(s1, q + 1, p, cmd)

NoteFirst(s, p, cmd) == NoteFirstFrom(s, 1, p, cmd)

\* The host delivers one view -> host message of surface p to the message
\* listeners attached to it, in registration order.
Receive(s, p, cmd, d) ==
    FireMessage(NoteFirst(s, p, cmd),
                Sorted(Attached(s, p, "message") \cup Attached(s, p, "handshake")),
                cmd, d)

\* A view state listener that does not test this.panel.visible.
OnViewStateAlways(s, i, visible) == update(s, i)

\* The onDidChangeViewState listener of instance i: this.panel.visible is
\* what the host set before it fired the event.
OnViewState(s, i, visible) ==
    IF visible THEN update(s, i) ELSE s

RECURSIVE FireViewState(_, _, _)
FireViewState(s, rs, visible) ==
    IF rs = <<>> THEN s
    ELSE FireViewState(OnViewState(s, s.reg[Head(rs)].inst, visible), Tail(rs), visible)

\* The host reports a view state change of surface p (its visibility, focus
\* or column changed) with panel.visible = visible.
ChangeViewState(s, p, visible) ==
    FireViewState(s, Sorted(Attached(s, p, "viewstate")), visible)

----------------------------------------------------------------------------
\* Initial state and actions.

Init ==
    /\ currentPanel = 0
    /\ instances = <<>>
    /\ panels = <<>>
    /\ registrations = <<>>
    /\ promises = <<>>
    /\ faulty = {}

Commit(s) ==
    /\ currentPanel' = s.cur
    /\ instances' = s.inst
    /\ panels' = s.pan
    /\ registrations' = s.reg
    /\ promises' = s.pro
    /\ UNCHANGED faulty

Live(p) == p \in 1..Len(panels) /\ ~panels[p].disposed

\* The host restores a surface of an earlier session: the new surface is
\* Len(result.pan).
Restore(s) ==
    [s EXCEPT !.pan = Append(@, [disposed |-> FALSE, load |-> FALSE])]

\* A caller calls Webview.render(extensionUri).
Render ==
    /\ Len(promises) < MaxShow
    /\ currentPanel = 0 => Len(instances) < MaxInst
    /\ Commit(render(St))

\* A caller calls Webview.create(extensionUri) directly.
Create ==
    /\ Len(instances) < MaxInst
    /\ Commit(create(St))

\* The host restores a surface and hands it to Webview.revive.
Revive ==
    /\ Len(instances) < MaxInst
    /\ Commit(revive(Restore(St), Len(panels) + 1))

\* A caller calls Webview.postMessage(m).
PostMessage ==
    \E m \in Envelopes : Commit(postMessage(St, m))

\* A caller calls dispose() on an instance it holds (the tracked one, one
\* that create returned, or one it held before).
Dispose ==
    \E i \in 1..Len(instances) : Commit(dispose(St, i))

\* The user closes surface p: the host disposes it.
Close ==
    \E p \in 1..Len(panels) :
        /\ Live(p)
        /\ Commit(PanelDispose(St, p))

\* The embedded content of surface p sends the message [command: cmd, data: d].
Deliver ==
    \E p \in 1..Len(panels), cmd \in Commands :
        /\ Live(p)
        /\ \E d \in IF cmd = "error" THEN Data ELSE {""} :
               Commit(Receive(St, p, cmd, d))

\* The host reports a view state change of surface p, visible or not.
ViewState ==
    \E p \in 1..Len(panels), v \in BOOLEAN :
        /\ Live(p)
        /\ Commit(ChangeViewState(St, p, v))

\* The embedded content of surface p finished loading and signals it, once
\* for each load.
ContentReadyOn(p) ==
    /\ Live(p)
    /\ panels[p].load
    /\ Commit([Receive(St, p, "ready", "") EXCEPT !.pan[p].load = FALSE])

ContentReady ==
    \E p \in 1..Len(panels) : ContentReadyOn(p)

Next ==
    \/ Render
    \/ Create
    \/ Revive
    \/ PostMessage
    \/ Dispose
    \/ Close
    \/ Deliver
    \/ ViewState

\* Every operation and every host event.
Spec == Init /\ [][Next]_vars

\* render, disposals and host events only: no revive, no direct create.
NextShow ==
    \/ Render
    \/ PostMessage
    \/ Dispose
    \/ Close
    \/ Deliver
    \/ ViewState

SpecShow == Init /\ [][NextShow]_vars

\* The public entry points and the host events: no direct create.
NextPublic ==
    \/ Render
    \/ Revive
    \/ PostMessage
    \/ Dispose
    \/ Close
    \/ Deliver
    \/ ViewState

SpecPublic == Init /\ [][NextPublic]_vars

\* One registration's cleanup throws: one of the first MaxFaulty.
MaxFaulty == 4

InitFault ==
    /\ currentPanel = 0
    /\ instances = <<>>
    /\ panels = <<>>
    /\ registrations = <<>>
    /\ promises = <<>>
    /\ faulty \in {{r} : r \in 1..MaxFaulty}

SpecFault == InitFault /\ [][NextPublic]_vars

\* No surface is disposed, and the content of every surface sends ready
\* once after each load and nothing else; the host delivers that message
\* eventually.
NextLive ==
    \/ Render
    \/ Revive
    \/ PostMessage
    \/ ViewState
    \/ ContentReady

LiveSpec ==
    /\ Init
    /\ [][NextLive]_vars
    /\ \A p \in 1..MaxInst : WF_vars(ContentReadyOn(p))

----------------------------------------------------------------------------
\* Vocabulary of the claims. A claim about what an operation does in every
\* reachable state applies the operation to the current state St and
\* states its result r: \A r \in {operation(St)} : ... .

Instances == 1..Len(instances)
Promises == 1..Len(promises)
Registrations == 1..Len(registrations)
Surfaces == 1..Len(panels)

\* In state s, instance i is live: its surface is not disposed and it holds
\* listener registrations.
LiveIn(s) ==
    {i \in 1..Len(s.inst) : /\ ~s.pan[s.inst[i].panel].disposed
                            /\ s.inst[i].disposables # <<>>}

LiveInstances == LiveIn(St)

RegsOf(i) == {r \in Registrations : registrations[r].inst = i}

\* dispose() has run on instance i, or the host closed its surface.
Gone(i) == instances[i].disposeCalled \/ panels[instances[i].panel].disposed

Event(e, a, d) == [e |-> e, a |-> a, d |-> d]

\* The calls of kind e among the calls of an operation, in order.
Calls(events, e) == SelectSeq(events, LAMBDA x : x.e = e)

\* Operation result r leaves the singleton reference, the instances with
\* their listener sets, the surfaces and the registrations as they are.
SameController(r) ==
    /\ r.cur = currentPanel
    /\ r.inst = instances
    /\ r.pan = panels
    /\ r.reg = registrations

----------------------------------------------------------------------------
\* C1 (fails on the code, under SpecShow): for every sequence of render
\* calls interleaved with disposals (dispose() on an instance, or the host
\* closing a surface) at most one instance is live in every reachable
\* state, and a render issued while an instance is tracked reveals that
\* instance's surface and constructs neither a surface nor an instance.
C1_SingletonUnderShow ==
    /\ Cardinality(LiveInstances) <= 1
    /\ currentPanel # 0 =>
        \A r \in {render(St)} :
        /\ Calls(r.ev, "reveal") = <<Event("reveal", instances[currentPanel].panel, "")>>
        /\ Calls(r.ev, "createWebviewPanel") = <<>>
        /\ r.cur = currentPanel
        /\ Len(r.inst) = Len(instances)
        /\ Len(r.pan) = Len(panels)

\* C2: for every promise render returned, if the first inbound message
\* delivered on its surface after that render is ready the promise is
\* resolved, and if it is any other command the promise is rejected.
C2_HandshakeResolution ==
    \A q \in Promises :
        /\ promises[q].first = "ready" => promises[q].status = "resolved"
        /\ promises[q].first = "other" => promises[q].status = "rejected"

\* One promise was resolved by a first message ready, another rejected by a
\* first message that was not.
C2_Witness ==
    \E q1, q2 \in Promises :
        /\ promises[q1].first = "ready" /\ promises[q1].status = "resolved"
        /\ promises[q2].first = "other" /\ promises[q2].status = "rejected"

\* C3: in every reachable state a dispose call on any instance (its first,
\* a repeated one, one made while nothing is tracked) leaves the controller
\* Absent, does not throw and leaves the instance's set empty; no
\* registration's cleanup ever runs twice; and once dispose has run on an
\* instance or its surface is disposed, every registration of the instance
\* has had its cleanup run exactly once.
C3_DisposalIdempotence ==
    /\ \A i \in Instances :
        \A r \in {dispose(St, i)} :
        /\ r.cur = 0
        /\ ~r.threw
        /\ r.inst[i].disposables = <<>>
        /\ \A k \in RegsOf(i) : r.reg[k].cleaned = 1
    /\ \A k \in Registrations : registrations[k].cleaned <= 1
    /\ \A i \in Instances :
        Gone(i) => /\ instances[i].disposables = <<>>
                   /\ \A k \in RegsOf(i) : registrations[k].cleaned = 1

\* An instance with a handshake registration was disposed, nothing is
\* tracked, and disposing it again changes nothing.
C3_Witness ==
    \E i \in Instances :
        /\ Gone(i)
        /\ currentPanel = 0
        /\ \E k \in RegsOf(i) : /\ registrations[k].kind = "handshake"
                                /\ registrations[k].cleaned = 1
        /\ \A r \in {dispose(St, i)} :
           /\ r.cur = 0
           /\ r.reg = registrations
           /\ r.inst = instances

\* C4 (fails on the code, under SpecPublic): for every sequence of render,
\* revive, dispose and host-initiated closes at most one instance with a
\* non-disposed surface and attached listeners exists; in particular none
\* beside the tracked one after a revive.
C4_ProcessWideSingleton ==
    \A i, j \in LiveInstances : i = j

\* C5 (fails on the code, under LiveSpec): while no surface is disposed and
\* the content sends ready once after each load, the promise of every
\* render eventually completes. Only a ready of the content completes a
\* promise there, so a promise that completes eventually is, while it is
\* pending, still owed one: a state in which a promise is pending and the
\* content has signalled its load is one the run may stay in for ever.
C5_ShowLiveness ==
    \A q \in Promises :
        promises[q].status = "pending" =>
            panels[instances[promises[q].inst].panel].load

\* C6: once the instance of a render is disposed (by dispose() or by the
\* host closing its surface) before any inbound message was delivered, the
\* promise of that render stays pending in every later step.
C6_EarlyDisposalPending ==
    [][\A q \in Promises :
        (/\ promises[q].status = "pending"
         /\ promises[q].first = "none"
         /\ Gone(promises[q].inst)) => promises'[q].status = "pending"]_vars

\* A render was disposed early and its promise is pending, and a later
\* render constructed a new instance whose promise is resolved.
C6_Witness ==
    \E q1, q2 \in Promises :
        /\ q1 < q2
        /\ promises[q1].status = "pending" /\ promises[q1].first = "none"
        /\ Gone(promises[q1].inst)
        /\ promises[q2].inst # promises[q1].inst
        /\ promises[q2].status = "resolved"

\* C7: in every reachable state postMessage does not throw and changes
\* neither the singleton reference nor any listener set; while nothing is
\* tracked it hands nothing to any surface, and while an instance is
\* tracked it hands the envelope to that instance's surface exactly once.
C7_PostMessage ==
    \A m \in Envelopes :
        \A r \in {postMessage(St, m)} :
        /\ ~r.threw
        /\ SameController(r)
        /\ r.pro = promises
        /\ r.ev = IF currentPanel = 0 THEN <<>>
                  ELSE <<Event("postMessage", instances[currentPanel].panel, m)>>

\* Nothing is tracked while a surface that was tracked before is still
\* live, and postMessage hands that surface nothing.
C7_Witness ==
    /\ currentPanel = 0
    /\ LiveInstances # {}
    /\ postMessage(St, "x").ev = <<>>

\* C8 (fails on the code, under SpecFault): when one registration's cleanup
\* throws, every other registration of a disposed instance still has its
\* cleanup run exactly once and the instance's set ends empty.
C8_CleanupIsolation ==
    \A i \in Instances :
        Gone(i) =>
            /\ instances[i].disposables = <<>>
            /\ \A k \in RegsOf(i) \ faulty : registrations[k].cleaned = 1

\* C9 as claimed (fails): an inbound message that is neither ready nor error,
\* delivered in any state, raises no notification, does not throw and
\* changes nothing: not the singleton reference, the listener sets or the
\* status of any promise.
C9_UnrecognizedIgnored ==
    \A p \in Surfaces :
        Live(p) =>
            \A r \in {Receive(St, p, "other", "")} :
            /\ Calls(r.ev, "showErrorMessage") = <<>>
            /\ ~r.threw
            /\ SameController(r)
            /\ \A q \in Promises : r.pro[q].status = promises[q].status

\* C9 as amended: such a message raises no notification, does not throw and
\* leaves the singleton reference and the listener sets unchanged; it
\* rejects every promise still pending on that surface and leaves the status
\* of every other promise unchanged.
C9_UnrecognizedRejectsPending ==
    \A p \in Surfaces :
        Live(p) =>
            \A r \in {Receive(St, p, "other", "")} :
            /\ Calls(r.ev, "showErrorMessage") = <<>>
            /\ ~r.threw
            /\ SameController(r)
            /\ Len(r.pro) = Len(promises)
            /\ \A q \in Promises :
                r.pro[q].status =
                    IF /\ promises[q].status = "pending"
                       /\ instances[promises[q].inst].panel = p
                    THEN "rejected" ELSE promises[q].status

\* A surface holds a resolved promise and a pending one, and an
\* unrecognized command rejects the pending one and leaves the other.
C9_Witness ==
    \E q1, q2 \in Promises :
        /\ promises[q1].status = "pending"
        /\ promises[q2].status = "resolved"
        /\ promises[q1].inst = promises[q2].inst
        /\ Live(instances[promises[q1].inst].panel)
        /\ \A r \in {Receive(St, instances[promises[q1].inst].panel, "other", "")} :
           /\ r.pro[q1].status = "rejected"
           /\ r.pro[q2].status = "resolved"

\* C10: in every reachable state an inbound error message on a live surface
\* raises exactly one error notification, carrying the message's data, does
\* not throw, and leaves the singleton reference, the surfaces and every
\* listener registration as they were.
C10_ErrorNonFatal ==
    \A p \in Surfaces, d \in Data :
        Live(p) =>
            \A r \in {Receive(St, p, "error", d)} :
            /\ Calls(r.ev, "showErrorMessage") = <<Event("showErrorMessage", 0, d)>>
            /\ ~r.threw
            /\ SameController(r)

\* The tracked instance is live after an earlier message rejected its
\* promise, and an error report is notified and leaves it tracked.
C10_Witness ==
    /\ currentPanel \in LiveInstances
    /\ \E q \in Promises : /\ promises[q].inst = currentPanel
                           /\ promises[q].status = "rejected"
    /\ \A r \in {Receive(St, instances[currentPanel].panel, "error", "y")} :
       /\ Calls(r.ev, "showErrorMessage") = <<Event("showErrorMessage", 0, "y")>>
       /\ r.cur = currentPanel

\* The registrations of kind k that are attached to surface p in state s
\* and held by instance i.
Held(s, i, p, k) == {x \in Attached(s, p, k) : s.reg[x].inst = i}

\* C11: in every reachable state, revive of a surface the host restored
\* makes the tracked singleton a new instance that wraps exactly that
\* surface, attaches one disposal, one message and one view state listener
\* (and no handshake listener), regenerates the content once, and makes no
\* other call: none to the host's createWebviewPanel and none that carries
\* the enable-scripts / resource-root options; the surfaces and the
\* instances that existed stay as they were.
C11_RevivalBypassesConstruction ==
    LET p == Len(panels) + 1
        i == Len(instances) + 1
    IN  \A r \in {revive(Restore(St), p)} :
        /\ ~r.threw
        /\ r.cur = i
        /\ Len(r.inst) = i
        /\ r.inst[i].panel = p
        /\ Len(r.pan) = p
        /\ ~r.pan[p].disposed
        /\ r.ev = <<Event("html", p, "")>>
        /\ \A x \in 1..Len(r.ev) : r.ev[x].d # "scripts+roots"
        /\ \A k \in {"dispose", "message", "viewstate"} :
               Cardinality(Held(r, i, p, k)) = 1
        /\ Attached(r, p, "handshake") = {}
        /\ Len(r.inst[i].disposables) = 3
        /\ \A j \in Instances : r.inst[j] = instances[j]
        /\ \A x \in Surfaces : r.pan[x] = panels[x]

\* An instance that render constructed is tracked and live, its promise is
\* pending, and revive replaces it as the tracked singleton by an instance
\* on the restored surface without constructing a surface.
C11_Witness ==
    /\ currentPanel \in LiveInstances
    /\ \E q \in Promises : /\ promises[q].inst = currentPanel
                           /\ promises[q].status = "pending"
    /\ \A r \in {revive(Restore(St), Len(panels) + 1)} :
       /\ r.cur = Len(instances) + 1
       /\ r.inst[r.cur].panel = Len(panels) + 1
       /\ Calls(r.ev, "createWebviewPanel") = <<>>
       /\ currentPanel \in LiveIn(r)

\* C12: in every reachable state a direct create constructs one new surface
\* with the options of getOptions, returns a new live instance on it and
\* leaves the singleton reference unchanged; after it render and
\* postMessage still address the instance that was tracked; and no step
\* ever makes the singleton reference name an instance that existed
\* before the step, so an instance create returned is never tracked.
C12_CreateIgnoresSingleton ==
    /\ [](LET p == Len(panels) + 1
              i == Len(instances) + 1
          IN  \A r \in {create(St)} :
              /\ ~r.threw
              /\ r.cur = currentPanel
              /\ Len(r.pan) = p /\ Len(r.inst) = i
              /\ r.inst[i].panel = p
              /\ i \in LiveIn(r)
              /\ Calls(r.ev, "createWebviewPanel")
                     = <<Event("createWebviewPanel", p, "scripts+roots")>>
              /\ \A j \in Instances : r.inst[j] = instances[j]
              /\ \A x \in Surfaces : r.pan[x] = panels[x]
              /\ currentPanel # 0 =>
                  /\ LiveIn(r) = LiveInstances \cup {i}
                  /\ \A m \in Envelopes :
                         postMessage(r, m).ev =
                             r.ev \o <<Event("postMessage", instances[currentPanel].panel, m)>>
                  /\ \A w \in {render(r)} :
                     /\ w.cur = currentPanel
                     /\ Calls(w.ev, "reveal")
                            = <<Event("reveal", instances[currentPanel].panel, "")>>
                     /\ w.inst[i] = r.inst[i])
    /\ [][currentPanel' \in {currentPanel, 0}
              \/ (currentPanel' \notin Instances /\ currentPanel' = Len(instances'))]_vars

\* An instance is tracked and live, and a direct create yields a second
\* live instance that is not the tracked one.
C12_Witness ==
    /\ currentPanel \in LiveInstances
    /\ \A r \in {create(St)} :
       /\ r.cur = currentPanel
       /\ Len(r.inst) \in LiveIn(r)
       /\ Cardinality(LiveIn(r)) >= 2

\* C13: the markup of a surface is assigned exactly once by create and by
\* revive (on the constructed instance's surface), once by a render that
\* finds nothing tracked and once on each view state change delivered while
\* the surface is visible; a view state change delivered while it is not
\* visible changes nothing, and reveal (a render that finds an instance
\* tracked), postMessage and an inbound message assign no markup.
C13_ContentRegeneration ==
    /\ Calls(create(St).ev, "html") = <<Event("html", Len(panels) + 1, "")>>
    /\ Calls(revive(Restore(St), Len(panels) + 1).ev, "html")
           = <<Event("html", Len(panels) + 1, "")>>
    /\ Calls(render(St).ev, "html") =
           IF currentPanel = 0 THEN <<Event("html", Len(panels) + 1, "")>> ELSE <<>>
    /\ \A m \in Envelopes : Calls(postMessage(St, m).ev, "html") = <<>>
    /\ \A p \in Surfaces :
        Live(p) =>
            /\ \A r \in {ChangeViewState(St, p, TRUE)} :
               /\ r.ev = <<Event("html", p, "")>>
               /\ r.pan[p].load
            /\ \A r \in {ChangeViewState(St, p, FALSE)} :
               /\ r.ev = <<>>
               /\ r.pan = panels
            /\ \A cmd \in Commands :
                   Calls(Receive(St, p, cmd, "").ev, "html") = <<>>

\* A surface is live and tracked with a settled promise, a view state
\* change while visible regenerates its markup once and one while hidden
\* does not.
C13_Witness ==
    /\ currentPanel \in LiveInstances
    /\ \E q \in Promises : /\ promises[q].inst = currentPanel
                           /\ promises[q].status = "resolved"
    /\ LET p == instances[currentPanel].panel IN
       /\ ChangeViewState(St, p, TRUE).ev = <<Event("html", p, "")>>
       /\ ChangeViewState(St, p, FALSE).ev = <<>>

\* The positions of the calls of kind e among the calls events.
At(events, e) == {x \in 1..Len(events) : events[x].e = e}

\* C15: in every reachable state, within one dispose call on any instance
\* the singleton reference is cleared first, the surface is disposed next
\* and every release of a listener registration comes after that; the
\* dispose that the surface's disposal event calls back finds nothing
\* tracked, and the call ends with nothing tracked. A call on an instance
\* whose surface is disposed already only clears the reference.
C15_DisposalOrdering ==
    \A i \in Instances :
        LET p == instances[i].panel
        IN  \A r \in {dispose(St, i)} :
            /\ r.ev[1] = Event("clear", i, Observed(St))
            /\ \A x \in At(r.ev, "clear") : x > 1 => r.ev[x].d = "absent"
            /\ \A x \in At(r.ev, "panelDispose") : x = 2
            /\ \A x \in At(r.ev, "panelDispose"), y \in At(r.ev, "cleanup") : x < y
            /\ \A x \in At(r.ev, "clear"), y \in At(r.ev, "cleanup") : x < y
            /\ r.cur = 0
            /\ IF Live(p)
               THEN /\ Calls(r.ev, "panelDispose") = <<Event("panelDispose", p, "")>>
                    /\ Calls(r.ev, "clear") = <<Event("clear", i, Observed(St)),
                                                Event("clear", i, "absent")>>
                    /\ Cardinality(At(r.ev, "cleanup")) = Len(instances[i].disposables)
               ELSE r.ev = <<Event("clear", i, Observed(St))>>

\* The tracked instance is live and holds a handshake registration beside
\* its three, and its dispose clears, disposes the surface, is called back
\* with nothing tracked and then releases the four registrations.
C15_Witness ==
    /\ currentPanel \in LiveInstances
    /\ Len(instances[currentPanel].disposables) = 4
    /\ \A r \in {dispose(St, currentPanel)} :
       /\ Len(r.ev) = 7
       /\ r.ev[1] = Event("clear", currentPanel, "tracked")
       /\ r.ev[2].e = "panelDispose"
       /\ r.ev[3] = Event("clear", currentPanel, "absent")
       /\ \A x \in 4..7 : r.ev[x].e = "cleanup"

\* C16 (fails on the code): in every reachable state, dispose on an instance
\* that is not the tracked one (one a direct create returned, or one that
\* revive replaced) leaves the singleton reference unchanged and releases
\* no listener registration of the tracked instance.
C16_DisposalIsolation ==
    \A i \in Instances :
        (currentPanel # 0 /\ i # currentPanel) =>
            \A r \in {dispose(St, i)} :
            /\ r.cur = currentPanel
            /\ r.inst[currentPanel] = instances[currentPanel]
            /\ \A k \in RegsOf(currentPanel) : r.reg[k] = registrations[k]

\* C17: in every reachable state in which the singleton reference is set,
\* it names an instance whose surface is not disposed, on which dispose
\* has not run, and whose listener registrations (the three of the
\* constructor and those of its renders) are all held and attached.
C17_TrackedImpliesLive ==
    currentPanel # 0 =>
        /\ currentPanel \in Instances
        /\ Live(instances[currentPanel].panel)
        /\ ~instances[currentPanel].disposeCalled
        /\ Len(instances[currentPanel].disposables) >= 3
        /\ Len(instances[currentPanel].disposables) = Cardinality(RegsOf(currentPanel))
        /\ \A k \in RegsOf(currentPanel) : registrations[k].cleaned = 0
        /\ \A k \in {"dispose", "message", "viewstate"} :
               Cardinality(Held(St, currentPanel, instances[currentPanel].panel, k)) = 1

\* An instance is tracked and live after two others were disposed, one by
\* dispose() and one by the host closing its surface.
C17_Witness ==
    /\ currentPanel \in LiveInstances
    /\ \E i, j \in Instances :
        /\ i # j
        /\ instances[i].disposeCalled /\ panels[instances[i].panel].disposed
        /\ instances[j].disposeCalled /\ panels[instances[j].panel].disposed
    /\ \E q \in Promises : promises[q].inst = currentPanel

\* C18: a promise is pending exactly while no inbound message was delivered
\* on its surface since its render; in every step the status of a settled
\* promise stays as it is, and a status changes only from pending to
\* resolved or rejected and only in the step that delivers the first
\* inbound message after the promise's render.
C18_HandshakeSettlesOnce ==
    /\ [](\A q \in Promises :
            (promises[q].status = "pending") <=> (promises[q].first = "none"))
    /\ [][\A q \in Promises :
            /\ promises[q].status # "pending" =>
                   promises'[q].status = promises[q].status
            /\ promises'[q].status # promises[q].status =>
                   /\ promises[q].first = "none"
                   /\ promises'[q].first # "none"
                   /\ promises'[q].status \in {"resolved", "rejected"}]_vars

\* A surface holds a resolved and a rejected promise, still has their
\* handshake listeners attached, and a message of the opposite command
\* changes neither.
C18_Witness ==
    \E q1, q2 \in Promises :
        /\ promises[q1].status = "resolved"
        /\ promises[q2].status = "rejected"
        /\ promises[q1].inst = promises[q2].inst
        /\ LET p == instances[promises[q1].inst].panel IN
           /\ Live(p)
           /\ Cardinality(Attached(St, p, "handshake")) = 2
           /\ Receive(St, p, "other", "").pro[q1].status = "resolved"
           /\ Receive(St, p, "ready", "").pro[q2].status = "rejected"

\* The promises of the renders made on instance i.
ShowsOn(i) == {q \in Promises : promises[q].inst = i}

\* C19: in every reachable state an instance that is not disposed holds
\* its three registrations and one handshake registration for each render
\* made on it, all attached; a render that finds an instance tracked appends
\* exactly one handshake registration to that instance's set and changes
\* no other set; and a step that settles one promise settles every promise
\* pending on the same instance, all with the same outcome.
C19_OverlappingShows ==
    /\ [](\A i \in Instances :
            ~Gone(i) =>
                /\ Len(instances[i].disposables) = 3 + Cardinality(ShowsOn(i))
                /\ Cardinality(Held(St, i, instances[i].panel, "handshake"))
                       = Cardinality(ShowsOn(i))
                /\ \A q \in ShowsOn(i) :
                       \E k \in Held(St, i, instances[i].panel, "handshake") :
                           registrations[k].promise = q)
    /\ [][/\ (currentPanel # 0 /\ Len(promises') = Len(promises) + 1) =>
               LET k == Len(registrations) + 1 IN
               /\ registrations' =
                      Append(registrations,
                             [kind |-> "handshake", inst |-> currentPanel,
                              panel |-> instances[currentPanel].panel,
                              promise |-> Len(promises) + 1, cleaned |-> 0])
               /\ instances' =
                      [instances EXCEPT ![currentPanel].disposables = Append(@, k)]
           /\ \A q1, q2 \in Promises :
                  (/\ promises'[q1].status # promises[q1].status
                   /\ promises[q2].status = "pending"
                   /\ promises[q2].inst = promises[q1].inst)
                      => promises'[q2].status = promises'[q1].status]_vars

\* Three renders on one instance are pending together, its set holds six
\* registrations, and one ready resolves the three.
C19_Witness ==
    \E i \in Instances :
        /\ Cardinality({q \in ShowsOn(i) : promises[q].status = "pending"}) = 3
        /\ Len(instances[i].disposables) = 6
        /\ Live(instances[i].panel)
        /\ \A r \in {Receive(St, instances[i].panel, "ready", "")} :
           \A q \in ShowsOn(i) : r.pro[q].status = "resolved"

====
